---- MODULE Spec2Model ----
(***************************************************************************)
(* cl::CommandQueue and the part of cl::Context that owns command queues   *)
(* (libANGLE/CLCommandQueue.cpp, libANGLE/CLContext.h).                    *)
(*                                                                         *)
(* Handles are addresses: a command queue is named by the address it was   *)
(* allocated at, NULL is address 0.  Memory handed to getInfo is a         *)
(* sequence of bytes; integers and pointers are stored little-endian.      *)
(***************************************************************************)
EXTENDS Integers, Sequences, FiniteSets, TLC

\* ------------------------------------------------------------------ bounds
\* Number of addresses operator new can hand out for CommandQueue objects.
MaxQueues == 2
\* Largest reference count a queue is retained to.
MaxRefCount == 2
\* Number of application threads that call into the library concurrently.
MaxThreads == 2

\* --------------------------------------------------------------- constants
NULL == 0

CL_SUCCESS == "CL_SUCCESS"
CL_INVALID_VALUE == "CL_INVALID_VALUE"
CL_INVALID_DEVICE == "CL_INVALID_DEVICE"
CL_INVALID_OPERATION == "CL_INVALID_OPERATION"
CL_OUT_OF_RESOURCES == "CL_OUT_OF_RESOURCES"

\* cl_command_queue_properties bits
CL_QUEUE_OUT_OF_ORDER_EXEC_MODE_ENABLE == 1
CL_QUEUE_ON_DEVICE_DEFAULT == 8

\* keys of the extended property array
CL_QUEUE_PROPERTIES == 4243
CL_QUEUE_SIZE == 4244

\* sizeof of the types getInfo copies
SizeofPointer == 8
SizeofRefCount == 4
SizeofProperties == 8
SizeofPropElem == 8
SizeofSize == 4

\* CommandQueue::kNoSize, the value of mSize when no size was given (a cl_uint
\* no claim depends on).
kNoSize == 0

\* ------------------------------------------------------------ object graph
\* Addresses of the CommandQueue objects.
QueueIds == 1 .. MaxQueues
\* Addresses of the two contexts of the platform and of its devices.
Contexts == {17, 18}
Devices == {33, 34}
\* Context::mDevices (const after construction): 17 holds device 33 only,
\* 18 holds both devices.
mDevices == [c \in Contexts |-> IF c = 17 THEN <<33>> ELSE <<33, 34>>]

VARIABLES
    queues,                 \* address -> the CommandQueue object stored there
    mCommandQueues,         \* Context::mCommandQueues, per context
    mDefaultCommandQueue,   \* Device::mDefaultCommandQueue, per device
    contexts,               \* address -> reference counts of the Context there
    ret,                    \* outputs of the last lifecycle call
    call,                   \* the last getInfo call with its outputs
    threads                 \* thread -> the call it is in and its position

vars == <<queues, mCommandQueues, mDefaultCommandQueue, contexts, ret, call, threads>>

\* A slot no CommandQueue lives in.
NoQueue ==
    [alive |-> FALSE, mContext |-> NULL, mDevice |-> NULL, mPropArray |-> <<>>,
     mProperties |-> 0, mSize |-> 0, mRefCount |-> 0]

\* op names the call and self the object it was made on; the other fields
\* are what the call returned or wrote through its output pointers.
NoRet ==
    [op |-> "none", self |-> NULL, result |-> "none", handle |-> NULL, old |-> <<>>,
     released |-> FALSE]
Returned(op, self) == [NoRet EXCEPT !.op = op, !.self = self]
NoCall ==
    [self |-> NULL, name |-> "none", valueSize |-> 0, nullValue |-> TRUE,
     nullSizeRet |-> TRUE, afterProbe |-> FALSE, result |-> "none", value |-> <<>>,
     valueSizeRet |-> <<>>]

\* A Context as its creation call returns it: mRefCount is the count of the
\* Object base, held the number of those references the application owns.
NewContext == [mRefCount |-> 1, held |-> 1]

\* Threads and the record of a thread that is in no call.
Threads == 1 .. MaxThreads
NoThread ==
    [op |-> "none", pc |-> "done", self |-> NULL, ctx |-> NULL, device |-> NULL,
     properties |-> <<>>, errorCode |-> "none", released |-> FALSE,
     isDefault |-> FALSE, it |-> NULL, out |-> <<>>, touchedDestroyed |-> FALSE,
     halfDestroyed |-> FALSE]

\* ---------------------------------------------------------------- helpers
RECURSIVE BitAnd(_, _)
BitAnd(a, b) ==
    IF a = 0 \/ b = 0 THEN 0
    ELSE (IF a % 2 = 1 /\ b % 2 = 1 THEN 1 ELSE 0) + 2 * BitAnd(a \div 2, b \div 2)

RECURSIVE BitOr(_, _)
BitOr(a, b) ==
    IF a = 0 THEN b
    ELSE IF b = 0 THEN a
    ELSE (IF a % 2 = 1 \/ b % 2 = 1 THEN 1 ELSE 0) + 2 * BitOr(a \div 2, b \div 2)

\* a & ~b
RECURSIVE BitAndNot(_, _)
BitAndNot(a, b) ==
    IF a = 0 THEN 0
    ELSE (IF a % 2 = 1 /\ b % 2 = 0 THEN 1 ELSE 0) + 2 * BitAndNot(a \div 2, b \div 2)

\* BitField::isSet, BitField::set, BitField::clear
isSet(bits, mask) == BitAnd(bits, mask) # 0
BitFieldSet(bits, mask) == BitOr(bits, mask)
BitFieldClear(bits, mask) == BitAndNot(bits, mask)

\* The n bytes an integer occupies in memory, least significant first.
RECURSIVE Bytes(_, _)
Bytes(v, n) == IF n = 0 THEN <<>> ELSE <<v % 256>> \o Bytes(v \div 256, n - 1)

RECURSIVE Concat(_)
Concat(ss) == IF ss = <<>> THEN <<>> ELSE Head(ss) \o Concat(Tail(ss))

\* The bytes of a vector of cl_queue_properties.
ArrayBytes(arr) == Concat([i \in 1 .. Len(arr) |-> Bytes(arr[i], SizeofPropElem)])

\* std::memcpy(dst, src, n): the first n bytes of dst are replaced.
memcpy(dst, src, n) ==
    [i \in 1 .. Len(dst) |-> IF i <= n THEN src[i] ELSE dst[i]]

Range(s) == {s[i] : i \in 1 .. Len(s)}

\* hasDevice with the comparison of its lambda negated.
hasDevice_NotEqual(c, device) ==
    \E i \in 1 .. Len(mDevices[c]) : mDevices[c][i] # device

\* Context::hasDevice
hasDevice(c, device) == \E i \in 1 .. Len(mDevices[c]) : mDevices[c][i] = device

\* hasCommandQueue that looks at the front of the list only.
hasCommandQueue_FrontOnly(c, commandQueue) ==
    mCommandQueues[c] # <<>> /\ Head(mCommandQueues[c]) = commandQueue

\* Context::hasCommandQueue
hasCommandQueue(c, commandQueue) ==
    \E i \in 1 .. Len(mCommandQueues[c]) : mCommandQueues[c][i] = commandQueue

\* CommandQueue::IsValid: scan of every context of the platform
IsValid(commandQueue) == \E c \in Contexts : hasCommandQueue(c, commandQueue)

TypeOK ==
    /\ \A q \in QueueIds : queues[q].alive \in BOOLEAN
    /\ \A c \in Contexts : Range(mCommandQueues[c]) \subseteq QueueIds
    /\ \A d \in Devices : mDefaultCommandQueue[d] \in QueueIds \cup {NULL}

Init ==
    /\ queues = [q \in QueueIds |-> NoQueue]
    /\ mCommandQueues = [c \in Contexts |-> <<>>]
    /\ mDefaultCommandQueue = [d \in Devices |-> NULL]
    /\ contexts = [c \in Contexts |-> NewContext]
    /\ ret = NoRet
    /\ call = NoCall
    /\ threads = [t \in Threads |-> NoThread]

\* ------------------------------------------------------------- CommandQueue
\* Object::addRef, Object::removeRef (the count after the call; removeRef
\* reports whether it reached zero).
addRef(obj) == [obj EXCEPT !.mRefCount = @ + 1]
removeRef(obj) == [obj EXCEPT !.mRefCount = @ - 1]

\* A retain that does not count.
ContextRetain_NoCount(ctxs, c) == ctxs

\* Context::retain on the context at address c: a reference is added.
ContextRetain(ctxs, c) == [ctxs EXCEPT ![c].mRefCount = @ + 1]

\* Context::release on the context at address c: a reference is dropped; the
\* context whose count reaches zero is destroyed.
ContextRelease(ctxs, c) == [ctxs EXCEPT ![c].mRefCount = @ - 1]

\* The context at address c is one of the platform's contexts.
ContextIsValid(c) == contexts[c].mRefCount > 0

\* A destructor that clears the back-pointer without comparing it with this.
Destructor_AlwaysClear(defaults, this, device) == [defaults EXCEPT ![device] = NULL]

\* CommandQueue::~CommandQueue, as its effect on Device::mDefaultCommandQueue
\* when the object at address this, bound to device, is destroyed.
Destructor(defaults, this, device) ==
    IF defaults[device] = this THEN [defaults EXCEPT ![device] = NULL] ELSE defaults

\* The object the legacy constructor builds (fixed built-in properties).
LegacyObject(c, device, properties) ==
    [alive |-> TRUE, mContext |-> c, mDevice |-> device, mPropArray |-> <<>>,
     mProperties |-> properties, mSize |-> kNoSize, mRefCount |-> 1]

\* The body of the legacy constructor is empty: the device is not touched.
LegacyCtorBody(defaults, this, device, properties) == defaults

\* The object the extended constructor builds.
ExtendedObject(c, device, propArray, properties, size) ==
    [alive |-> TRUE, mContext |-> c, mDevice |-> device, mPropArray |-> propArray,
     mProperties |-> properties, mSize |-> size, mRefCount |-> 1]

\* An extended constructor with an empty body, like the legacy one.
ExtendedCtorBody_NoDefault(defaults, this, device, properties) == defaults

\* An extended constructor that keeps a default queue the device already has.
ExtendedCtorBody_KeepFirst(defaults, this, device, properties) ==
    IF isSet(properties, CL_QUEUE_ON_DEVICE_DEFAULT) /\ defaults[device] = NULL
    THEN [defaults EXCEPT ![device] = this]
    ELSE defaults

\* The body of the extended constructor; it runs whatever errorCode the
\* backend factory reported.
ExtendedCtorBody(defaults, this, device, properties) ==
    IF isSet(properties, CL_QUEUE_ON_DEVICE_DEFAULT)
    THEN [defaults EXCEPT ![device] = this]
    ELSE defaults

\* Context::destroyCommandQueue: erase the entry with this identity.
RECURSIVE Erase(_, _)
Erase(list, this) ==
    IF list = <<>> THEN <<>>
    ELSE IF Head(list) = this THEN Tail(list)
    ELSE <<Head(list)>> \o Erase(Tail(list), this)

\* Context::createCommandQueue(CommandQueue *): the tail shared by both
\* creation calls.  obj was constructed at address this and defaults is the
\* device table as its constructor left it.  A queue whose backend factory
\* failed is destroyed and not kept; the others enter the owning list.
RegisterCommandQueue(op, c, this, obj, defaults, errorCode) ==
    IF errorCode = CL_SUCCESS
    THEN /\ queues' = [queues EXCEPT ![this] = obj]
         /\ mCommandQueues' = [mCommandQueues EXCEPT ![c] = Append(@, this)]
         /\ mDefaultCommandQueue' = defaults
         /\ contexts' = ContextRetain(contexts, obj.mContext)
         /\ ret' = [Returned(op, c) EXCEPT !.result = errorCode, !.handle = this]
    ELSE /\ mDefaultCommandQueue' = Destructor(defaults, this, obj.mDevice)
         /\ contexts' = ContextRelease(ContextRetain(contexts, obj.mContext), obj.mContext)
         /\ ret' = [Returned(op, c) EXCEPT !.result = errorCode, !.handle = NULL]
         /\ UNCHANGED <<queues, mCommandQueues>>

\* Context::createCommandQueue(device, properties, errorCode).  this is the
\* address operator new returns, errorCode what the backend factory reports.
createCommandQueue(c, device, properties, this, errorCode) ==
    /\ ContextIsValid(c)
    /\ IF ~hasDevice(c, device)
       THEN /\ ret' = [Returned("createCommandQueue", c) EXCEPT
                               !.result = CL_INVALID_DEVICE, !.handle = NULL]
            /\ UNCHANGED <<queues, mCommandQueues, mDefaultCommandQueue, contexts>>
       ELSE /\ ~queues[this].alive
            /\ RegisterCommandQueue("createCommandQueue", c, this, LegacyObject(c, device, properties),
                   LegacyCtorBody(mDefaultCommandQueue, this, device, properties),
                   errorCode)
    /\ UNCHANGED <<call, threads>>

\* The parse of the extended property array: key/value pairs up to the zero
\* key; CL_QUEUE_PROPERTIES names the bit-set, CL_QUEUE_SIZE the size.
RECURSIVE ParseProps(_, _)
ParseProps(properties, acc) ==
    IF properties = <<>> \/ Head(properties) = 0 THEN acc
    ELSE LET key == properties[1]
             val == properties[2]
             rest == SubSeq(properties, 3, Len(properties))
         IN  IF key = CL_QUEUE_PROPERTIES THEN ParseProps(rest, [acc EXCEPT !.props = val])
             ELSE IF key = CL_QUEUE_SIZE THEN ParseProps(rest, [acc EXCEPT !.size = val])
             ELSE ParseProps(rest, acc)

\* Context::createCommandQueueWithProperties(device, properties, errorCode);
\* properties = <<>> stands for a null array.
createCommandQueueWithProperties(c, device, properties, this, errorCode) ==
    /\ ContextIsValid(c)
    /\ IF ~hasDevice(c, device)
       THEN /\ ret' = [Returned("createCommandQueueWithProperties", c) EXCEPT
                               !.result = CL_INVALID_DEVICE, !.handle = NULL]
            /\ UNCHANGED <<queues, mCommandQueues, mDefaultCommandQueue, contexts>>
       ELSE /\ ~queues[this].alive
            /\ LET parsed == ParseProps(properties, [props |-> 0, size |-> kNoSize])
               IN  RegisterCommandQueue("createCommandQueueWithProperties", c, this,
                       ExtendedObject(c, device, properties, parsed.props, parsed.size),
                       ExtendedCtorBody(mDefaultCommandQueue, this, device, parsed.props),
                       errorCode)
    /\ UNCHANGED <<call, threads>>

\* CommandQueue::retain
retain(this) ==
    /\ queues[this].alive
    /\ queues[this].mRefCount < MaxRefCount
    /\ queues' = [queues EXCEPT ![this] = addRef(@)]
    /\ ret' = Returned("retain", this)
    /\ UNCHANGED <<mCommandQueues, mDefaultCommandQueue, contexts, call, threads>>

\* release that reports the count reaching zero without asking the context
\* to destroy the queue.
release_ReportOnly(this) ==
    /\ queues[this].alive
    /\ LET obj == removeRef(queues[this])
           released == obj.mRefCount = 0
       IN  /\ ret' = [Returned("release", this) EXCEPT !.released = released]
           /\ queues' = [queues EXCEPT ![this] = obj]
           /\ UNCHANGED <<mCommandQueues, mDefaultCommandQueue, contexts>>
    /\ UNCHANGED <<call, threads>>

\* release that asks the context to destroy the queue whatever removeRef
\* reported.
release_AlwaysDestroy(this) ==
    /\ queues[this].alive
    /\ LET obj == removeRef(queues[this])
           released == obj.mRefCount = 0
       IN  /\ ret' = [Returned("release", this) EXCEPT !.released = released]
           /\ mCommandQueues' = [mCommandQueues EXCEPT ![obj.mContext] = Erase(@, this)]
           /\ mDefaultCommandQueue' = Destructor(mDefaultCommandQueue, this, obj.mDevice)
           /\ queues' = [queues EXCEPT ![this] = NoQueue]
           /\ contexts' = ContextRelease(contexts, obj.mContext)
    /\ UNCHANGED <<call, threads>>

\* CommandQueue::release, with Context::destroyCommandQueue and the
\* destructor it runs when the count reaches zero; the destroyed queue's
\* members go with it, among them its reference to the context.
release(this) ==
    /\ queues[this].alive
    /\ LET obj == removeRef(queues[this])
           released == obj.mRefCount = 0
       IN  /\ ret' = [Returned("release", this) EXCEPT !.released = released]
           /\ IF released
              THEN /\ mCommandQueues' =
                          [mCommandQueues EXCEPT ![obj.mContext] = Erase(@, this)]
                   /\ mDefaultCommandQueue' =
                          Destructor(mDefaultCommandQueue, this, obj.mDevice)
                   /\ queues' = [queues EXCEPT ![this] = NoQueue]
                   /\ contexts' = ContextRelease(contexts, obj.mContext)
              ELSE /\ queues' = [queues EXCEPT ![this] = obj]
                   /\ UNCHANGED <<mCommandQueues, mDefaultCommandQueue, contexts>>
    /\ UNCHANGED <<call, threads>>

\* Context::retain called by the application on a handle it owns.
retainContext(c) ==
    /\ contexts[c].held > 0
    /\ contexts[c].held < MaxRefCount
    /\ contexts' = [ContextRetain(contexts, c) EXCEPT ![c].held = @ + 1]
    /\ ret' = Returned("retainContext", c)
    /\ UNCHANGED <<queues, mCommandQueues, mDefaultCommandQueue, call, threads>>

\* Context::release called by the application on a handle it owns; the
\* call reports whether the count reached zero, which destroys the context.
releaseContext(c) ==
    /\ contexts[c].held > 0
    /\ contexts' = [ContextRelease(contexts, c) EXCEPT ![c].held = @ - 1]
    /\ ret' = [Returned("releaseContext", c) EXCEPT
                   !.released = (ContextRelease(contexts, c)[c].mRefCount = 0)]
    /\ UNCHANGED <<queues, mCommandQueues, mDefaultCommandQueue, call, threads>>

\* A commit that does not look at the backend's result.
CommitProperty_IgnoreResult(bits, properties, enable, result) ==
    IF enable = FALSE
    THEN BitFieldClear(bits, properties)
    ELSE BitFieldSet(bits, properties)

\* A commit with the branches of the enable test exchanged.
CommitProperty_Swapped(bits, properties, enable, result) ==
    IF result = CL_SUCCESS
    THEN IF enable = FALSE
         THEN BitFieldSet(bits, properties)
         ELSE BitFieldClear(bits, properties)
    ELSE bits

\* The bit-set setProperty commits once the backend has returned result.
CommitProperty(bits, properties, enable, result) ==
    IF result = CL_SUCCESS
    THEN IF enable = FALSE
         THEN BitFieldClear(bits, properties)
         ELSE BitFieldSet(bits, properties)
    ELSE bits

\* CommandQueue::setProperty.  nullOld: oldProperties is a null pointer;
\* result: what mImpl->setProperty returns.
setProperty(this, properties, enable, nullOld, result) ==
    /\ queues[this].alive
    /\ ret' = [Returned("setProperty", this) EXCEPT
                   !.result = result,
                   !.old = IF nullOld THEN <<>> ELSE <<queues[this].mProperties>>]
    /\ queues' = [queues EXCEPT ![this].mProperties =
                      CommitProperty(@, properties, enable, result)]
    /\ UNCHANGED <<mCommandQueues, mDefaultCommandQueue, contexts, call, threads>>

\* The property names getInfo recognizes (CommandQueueInfo).
RecognizedNames ==
    {"Context", "Device", "ReferenceCount", "Properties", "PropertiesArray", "Size",
     "DeviceDefault"}

\* The switch of getInfo with a default label that falls into the first case.
CopySource_NoDefault(self, name) ==
    LET obj == queues[self]
        at(bytes) == [recognized |-> TRUE, nullCopy |-> FALSE, copyValue |-> bytes,
                      copySize |-> Len(bytes)]
    IN  CASE name = "Device" -> at(Bytes(obj.mDevice, SizeofPointer))
          [] name = "ReferenceCount" -> at(Bytes(obj.mRefCount, SizeofRefCount))
          [] name = "Properties" -> at(Bytes(obj.mProperties, SizeofProperties))
          [] name = "PropertiesArray" ->
                [recognized |-> TRUE, nullCopy |-> obj.mPropArray = <<>>,
                 copyValue |-> ArrayBytes(obj.mPropArray),
                 copySize |-> Len(obj.mPropArray) * SizeofPropElem]
          [] name = "Size" -> at(Bytes(obj.mSize, SizeofSize))
          [] name = "DeviceDefault" ->
                at(Bytes(mDefaultCommandQueue[obj.mDevice], SizeofPointer))
          [] OTHER -> at(Bytes(obj.mContext, SizeofPointer))

\* The switch of getInfo with a property array rebuilt from the bit-set the
\* queue has now instead of the stored one.
CopySource_Reconstructed(self, name) ==
    LET obj == queues[self]
        at(bytes) == [recognized |-> TRUE, nullCopy |-> FALSE, copyValue |-> bytes,
                      copySize |-> Len(bytes)]
        rebuilt == IF obj.mPropArray = <<>> THEN <<>>
                   ELSE <<CL_QUEUE_SIZE, obj.mSize, CL_QUEUE_PROPERTIES,
                          obj.mProperties, 0>>
    IN  CASE name = "Context" -> at(Bytes(obj.mContext, SizeofPointer))
          [] name = "Device" -> at(Bytes(obj.mDevice, SizeofPointer))
          [] name = "ReferenceCount" -> at(Bytes(obj.mRefCount, SizeofRefCount))
          [] name = "Properties" -> at(Bytes(obj.mProperties, SizeofProperties))
          [] name = "PropertiesArray" ->
                [recognized |-> TRUE, nullCopy |-> rebuilt = <<>>,
                 copyValue |-> ArrayBytes(rebuilt),
                 copySize |-> Len(rebuilt) * SizeofPropElem]
          [] name = "Size" -> at(Bytes(obj.mSize, SizeofSize))
          [] name = "DeviceDefault" ->
                at(Bytes(mDefaultCommandQueue[obj.mDevice], SizeofPointer))
          [] OTHER ->
                [recognized |-> FALSE, nullCopy |-> TRUE, copyValue |-> <<>>,
                 copySize |-> 0]

\* The switch of getInfo: where the value of the named property lies and how
\* many bytes it has.  nullCopy: copyValue is a null pointer, which is what
\* data() of the empty mPropArray returns.
CopySource(self, name) ==
    LET obj == queues[self]
        at(bytes) == [recognized |-> TRUE, nullCopy |-> FALSE, copyValue |-> bytes,
                      copySize |-> Len(bytes)]
    IN  CASE name = "Context" -> at(Bytes(obj.mContext, SizeofPointer))
          [] name = "Device" -> at(Bytes(obj.mDevice, SizeofPointer))
          [] name = "ReferenceCount" -> at(Bytes(obj.mRefCount, SizeofRefCount))
          [] name = "Properties" -> at(Bytes(obj.mProperties, SizeofProperties))
          [] name = "PropertiesArray" ->
                [recognized |-> TRUE, nullCopy |-> obj.mPropArray = <<>>,
                 copyValue |-> ArrayBytes(obj.mPropArray),
                 copySize |-> Len(obj.mPropArray) * SizeofPropElem]
          [] name = "Size" -> at(Bytes(obj.mSize, SizeofSize))
          [] name = "DeviceDefault" ->
                at(Bytes(mDefaultCommandQueue[obj.mDevice], SizeofPointer))
          [] OTHER ->
                [recognized |-> FALSE, nullCopy |-> TRUE, copyValue |-> <<>>,
                 copySize |-> 0]

\* The capacity test of getInfo: the declared capacity is too small.
TooSmall_Strict(valueSize, copySize) == valueSize <= copySize
TooSmall(valueSize, copySize) == valueSize < copySize

\* The copy into the caller's buffer: copySize bytes, when both pointers are
\* non-null.
CopyValue_DeclaredCapacity(value, valueSize, src) ==
    IF ~value.null /\ ~src.nullCopy
    THEN [i \in 1 .. Len(value.mem) |->
             IF i > valueSize THEN value.mem[i]
             ELSE IF i <= Len(src.copyValue) THEN src.copyValue[i]
             ELSE 0]
    ELSE value.mem
CopyValue(value, valueSize, src) ==
    IF ~value.null /\ ~src.nullCopy
    THEN memcpy(value.mem, src.copyValue, src.copySize)
    ELSE value.mem

\* The write of the size output.
WriteSizeRet_ProbeOnly(value, valueSizeRet, copySize) ==
    IF ~valueSizeRet.null /\ value.null THEN <<copySize>> ELSE valueSizeRet.mem
WriteSizeRet(value, valueSizeRet, copySize) ==
    IF ~valueSizeRet.null THEN <<copySize>> ELSE valueSizeRet.mem

\* CommandQueue::getInfo.  value and valueSizeRet are pointers: null says
\* whether the pointer is null, mem is the memory it points to (the bytes of
\* the buffer; the size_t written so far, <<>> while unwritten).  The result
\* carries the return code and both memories after the call.
getInfo(self, name, valueSize, value, valueSizeRet) ==
    LET src == CopySource(self, name)
    IN  IF ~src.recognized
        THEN [result |-> CL_INVALID_VALUE, value |-> value.mem,
              valueSizeRet |-> valueSizeRet.mem]
        ELSE IF ~value.null /\ TooSmall(valueSize, src.copySize)
        THEN [result |-> CL_INVALID_VALUE, value |-> value.mem,
              valueSizeRet |-> valueSizeRet.mem]
        ELSE [result |-> CL_SUCCESS,
              value |-> CopyValue(value, valueSize, src),
              valueSizeRet |-> WriteSizeRet(value, valueSizeRet, src.copySize)]

\* What the caller's buffer of n bytes holds before the call.
Fill(n) == [i \in 1 .. n |-> 170]
Buffer(null, n) == [null |-> null, mem |-> IF null THEN <<>> ELSE Fill(n)]
SizeOut(null) == [null |-> null, mem |-> <<>>]

\* A getInfo call on a valid handle, with the outputs it leaves.
GetInfoCall(self, name, valueSize, nullValue, nullSizeRet, afterProbe) ==
    /\ queues[self].alive
    /\ LET out == getInfo(self, name, valueSize, Buffer(nullValue, valueSize),
                          SizeOut(nullSizeRet))
       IN  call' = [self |-> self, name |-> name, valueSize |-> valueSize,
                    nullValue |-> nullValue, nullSizeRet |-> nullSizeRet,
                    afterProbe |-> afterProbe, result |-> out.result,
                    value |-> out.value, valueSizeRet |-> out.valueSizeRet]
    /\ UNCHANGED <<queues, mCommandQueues, mDefaultCommandQueue, contexts, ret, threads>>

\* ---------------------------------------------------------------- the API
\* Inputs of the lifecycle specification.
PropertyInputs == {0, CL_QUEUE_ON_DEVICE_DEFAULT}
PropArrayInputs ==
    {<<>>, <<CL_QUEUE_SIZE, 2, CL_QUEUE_PROPERTIES, CL_QUEUE_ON_DEVICE_DEFAULT, 0>>}
MaskInputs ==
    {CL_QUEUE_OUT_OF_ORDER_EXEC_MODE_ENABLE, CL_QUEUE_ON_DEVICE_DEFAULT,
     CL_QUEUE_OUT_OF_ORDER_EXEC_MODE_ENABLE + CL_QUEUE_ON_DEVICE_DEFAULT}
FactoryResults == {CL_SUCCESS, CL_OUT_OF_RESOURCES}
BackendResults == {CL_SUCCESS, CL_INVALID_OPERATION}

CreateCommandQueue ==
    \E c \in Contexts, d \in Devices, p \in PropertyInputs, this \in QueueIds,
       e \in FactoryResults :
        createCommandQueue(c, d, p, this, e)

CreateCommandQueueWithProperties ==
    \E c \in Contexts, d \in Devices, a \in PropArrayInputs, this \in QueueIds,
       e \in FactoryResults :
        createCommandQueueWithProperties(c, d, a, this, e)

Retain == \E q \in QueueIds : retain(q)

Release == \E q \in QueueIds : release(q)

SetProperty ==
    \E q \in QueueIds, m \in MaskInputs, en \in BOOLEAN, nullOld \in BOOLEAN,
       r \in BackendResults :
        setProperty(q, m, en, nullOld, r)

Next ==
    \/ CreateCommandQueue
    \/ CreateCommandQueueWithProperties
    \/ Retain
    \/ Release
    \/ SetProperty

Spec == Init /\ [][Next]_vars

\* Creation and destruction alone, every queue destroyed by the release of
\* its only reference.  retain and setProperty write nothing but the
\* reference count and mProperties of a queue that stays alive, so the lists
\* and the devices' back-pointers move here as they do under Spec.
NextLifecycle ==
    \/ CreateCommandQueue
    \/ CreateCommandQueueWithProperties
    \/ Release

SpecLifecycle == Init /\ [][NextLifecycle]_vars

\* Queues of one device, created with or without a property, whose
\* properties are changed until they are destroyed.  setProperty reads and
\* writes mProperties only, which both constructors initialise alike.
CreateOnFirstDevice ==
    \E this \in QueueIds, p \in PropertyInputs :
        createCommandQueue(18, 33, p, this, CL_SUCCESS)

NextProperty ==
    \/ CreateOnFirstDevice
    \/ SetProperty
    \/ Release

SpecProperty == Init /\ [][NextProperty]_vars

\* Queues of either kind and of any context, created without properties,
\* retained and released.  Neither the reference count nor the lists depend
\* on a queue's properties.
CreateWithoutProperties ==
    \E c \in Contexts, d \in Devices, this \in QueueIds, e \in FactoryResults :
        \/ createCommandQueue(c, d, 0, this, e)
        \/ createCommandQueueWithProperties(c, d, <<>>, this, e)

NextRefCount ==
    \/ CreateWithoutProperties
    \/ Retain
    \/ Release

SpecRefCount == Init /\ [][NextRefCount]_vars

\* Queues built from a property array, with or without entries, whose
\* on-device-default bit is switched on and off while they are retained and
\* released.
CreateWithArray ==
    \E this \in QueueIds, a \in PropArrayInputs :
        createCommandQueueWithProperties(18, 33, a, this, CL_SUCCESS)

SetOnDeviceDefault ==
    \E q \in QueueIds, en \in BOOLEAN, r \in BackendResults :
        setProperty(q, CL_QUEUE_ON_DEVICE_DEFAULT, en, TRUE, r)

NextPropArray ==
    \/ CreateWithArray
    \/ SetOnDeviceDefault
    \/ Retain
    \/ Release

SpecPropArray == Init /\ [][NextPropArray]_vars

\* The application creates and destroys queues while it retains and
\* releases its references to their contexts.
RetainContext == \E c \in Contexts : retainContext(c)

ReleaseContext == \E c \in Contexts : releaseContext(c)

NextContext ==
    \/ CreateWithoutProperties
    \/ Release
    \/ RetainContext
    \/ ReleaseContext

SpecContext == Init /\ [][NextContext]_vars

\* ------------------------------------------------- the getInfo specification
\* getInfo is const: it is checked as a function of the object graph, which
\* InitInfo draws from the graphs Spec reaches with one queue (address 1) and,
\* optionally, a second queue that took over as its device's default.
NameInputs == RecognizedNames \cup {"InvalidEnum"}
ValueSizeInputs == {0, 3, 4, 5, 7, 8, 9, 39, 40, 41}
PropertyValues == {BitFieldSet(a, b) : a, b \in MaskInputs} \cup {0}

InitInfo ==
    \E c \in Contexts, a \in PropArrayInputs, cur \in PropertyValues,
       n \in 1 .. MaxRefCount, dflt \in 0 .. 2 :
      \E d \in Range(mDevices[c]) :
        LET parsed == ParseProps(a, [props |-> 0, size |-> kNoSize])
            obj == [ExtendedObject(c, d, a, cur, parsed.size) EXCEPT !.mRefCount = n]
            sibling == ExtendedObject(18, d,
                           <<CL_QUEUE_SIZE, 2, CL_QUEUE_PROPERTIES,
                             CL_QUEUE_ON_DEVICE_DEFAULT, 0>>,
                           CL_QUEUE_ON_DEVICE_DEFAULT, 2)
        IN  /\ dflt = 1 => isSet(parsed.props, CL_QUEUE_ON_DEVICE_DEFAULT)
            /\ queues = [q \in QueueIds |->
                            IF q = 1 THEN obj
                            ELSE IF q = 2 /\ dflt = 2 THEN sibling
                            ELSE NoQueue]
            /\ mCommandQueues = [x \in Contexts |->
                            (IF x = c THEN <<1>> ELSE <<>>)
                            \o (IF x = 18 /\ dflt = 2 THEN <<2>> ELSE <<>>)]
            /\ mDefaultCommandQueue = [x \in Devices |-> IF x = d THEN dflt ELSE NULL]
            /\ contexts = [x \in Contexts |->
                            [NewContext EXCEPT !.mRefCount = @ + Len(mCommandQueues[x])]]
            /\ ret = NoRet
            /\ call = NoCall
            /\ threads = [t \in Threads |-> NoThread]

\* The caller's first call.  getInfo writes nothing to the object graph, so a
\* later call meets the graph of the first: one call per behaviour, and the
\* call UseProbedSize adds, cover every call sequence.
GetInfo ==
    /\ call = NoCall
    /\ \E q \in QueueIds, name \in NameInputs, size \in ValueSizeInputs,
          nullValue \in BOOLEAN, nullSizeRet \in BOOLEAN :
           GetInfoCall(q, name, size, nullValue, nullSizeRet, FALSE)

\* The caller that probed the size with a null buffer calls again with a
\* buffer of exactly the size reported.
UseProbedSize ==
    /\ ~call.afterProbe
    /\ call.result = CL_SUCCESS
    /\ call.nullValue
    /\ ~call.nullSizeRet
    /\ GetInfoCall(call.self, call.name, call.valueSizeRet[1], FALSE, FALSE, TRUE)

NextInfo ==
    \/ GetInfo
    \/ UseProbedSize

SpecInfo == InitInfo /\ [][NextInfo]_vars

\* --------------------------------------------------------- getInfo claims
\* The last call was made (SpecInfo starts with no call).
Made == call.name # "none"
\* Canonical size and location of the property the last call named.
Asked == CopySource(call.self, call.name)

\* C1, as stated: for a recognized name and a non-null size output, the
\* canonical size is in the size output after the call, whatever happened to
\* the buffer (null, large enough, or too small).
C1_SizeAlwaysWritten ==
    (Made /\ call.name \in RecognizedNames /\ ~call.nullSizeRet)
        => call.valueSizeRet = <<Asked.copySize>>

\* C1, amended: for a recognized name and a non-null size output, the
\* canonical size is written whenever the call succeeds, which is when the
\* buffer is null or its capacity is at least the canonical size; with a
\* non-null buffer of smaller capacity the call returns CL_INVALID_VALUE and
\* the size output is left unwritten.
C1_SizeWrittenOnSuccess ==
    (Made /\ call.name \in RecognizedNames /\ ~call.nullSizeRet)
        => IF call.nullValue \/ call.valueSize >= Asked.copySize
           THEN call.result = CL_SUCCESS /\ call.valueSizeRet = <<Asked.copySize>>
           ELSE call.result = CL_INVALID_VALUE /\ call.valueSizeRet = <<>>

\* A call that copied the five-element property array into a larger buffer
\* and reported its size.
C1_Witness ==
    /\ call.name = "PropertiesArray"
    /\ ~call.nullSizeRet
    /\ ~call.nullValue
    /\ call.valueSize > Asked.copySize
    /\ Asked.copySize > 0
    /\ call.valueSizeRet = <<Asked.copySize>>

\* C2: for a recognized name and a non-null buffer, a capacity below the
\* canonical size gives CL_INVALID_VALUE and an untouched buffer; a capacity
\* of at least the canonical size gives CL_SUCCESS, the first canonical-size
\* bytes of the buffer are the property's bytes and the rest is untouched.
C2_NoPartialCopy ==
    (Made /\ call.name \in RecognizedNames /\ ~call.nullValue)
        => IF call.valueSize < Asked.copySize
           THEN call.result = CL_INVALID_VALUE /\ call.value = Fill(call.valueSize)
           ELSE /\ call.result = CL_SUCCESS
                /\ Len(call.value) = call.valueSize
                /\ \A i \in 1 .. call.valueSize :
                       call.value[i] = IF i <= Asked.copySize THEN Asked.copyValue[i]
                                       ELSE Fill(call.valueSize)[i]

\* A call with a non-empty buffer that is too small for the property.
C2_Witness ==
    /\ call.name \in RecognizedNames
    /\ ~call.nullValue
    /\ call.valueSize > 0
    /\ call.valueSize < Asked.copySize
    /\ call.result = CL_INVALID_VALUE

\* C3: a name outside the recognized set gives CL_INVALID_VALUE and neither
\* the buffer nor the size output is written, whatever pointers are passed.
C3_UnrecognizedName ==
    (Made /\ call.name \notin RecognizedNames)
        => /\ call.result = CL_INVALID_VALUE
           /\ call.value = Buffer(call.nullValue, call.valueSize).mem
           /\ call.valueSizeRet = <<>>

\* An unrecognized name asked with a buffer that could hold a pointer and
\* with a size output.
C3_Witness ==
    /\ call.name = "InvalidEnum"
    /\ ~call.nullValue
    /\ call.valueSize >= SizeofPointer
    /\ ~call.nullSizeRet
    /\ call.result = CL_INVALID_VALUE

\* C4: the call that follows a null-buffer probe with a buffer of exactly the
\* size the probe reported succeeds and reports that size again.
C4_ProbeThenUse ==
    call.afterProbe
        => /\ call.result = CL_SUCCESS
           /\ call.valueSizeRet = <<call.valueSize>>
           /\ call.valueSize = Asked.copySize

\* The second call of a probe for the property array, with a buffer of the
\* forty bytes the probe reported.
C4_Witness ==
    /\ call.afterProbe
    /\ call.name = "PropertiesArray"
    /\ call.valueSize = 5 * SizeofPropElem
    /\ call.result = CL_SUCCESS

\* ------------------------------------------------------- lifecycle claims
\* A getInfo query for a pointer- or bit-set-sized property into a buffer of
\* exactly that size.
Query(self, name) ==
    getInfo(self, name, SizeofPointer, Buffer(FALSE, SizeofPointer), SizeOut(FALSE))

\* Bit b (a power of two) of the bit-set x.
HasBit(x, b) == (x \div b) % 2 = 1
PropertyBits == {1, 2, 4, 8}

\* C5: every setProperty call with an old-properties output leaves the
\* pre-call bit-set in it, accepted or not, and returns the backend's code;
\* a rejected call leaves the queue as it was, and in no step does a queue's
\* bit-set change unless the step returned CL_SUCCESS.
C5_OldWrittenCommitOnSuccess ==
    [][/\ ret'.op = "setProperty"
            => \A r \in BackendResults, nullOld \in BOOLEAN :
                  (\E m \in MaskInputs, en \in BOOLEAN :
                       setProperty(ret'.self, m, en, nullOld, r))
                      => /\ ret'.result = r
                         /\ ~nullOld => ret'.old = <<queues[ret'.self].mProperties>>
                         /\ r # CL_SUCCESS => queues' = queues
       /\ \A q \in QueueIds :
            (queues[q].alive /\ queues'[q].alive
                /\ queues'[q].mProperties # queues[q].mProperties)
                => ret'.result = CL_SUCCESS
      ]_vars

\* A rejected setProperty that reported a non-empty pre-call bit-set, which
\* the queue still has.
C5_Witness ==
    /\ ret.op = "setProperty"
    /\ ret.result = CL_INVALID_OPERATION
    /\ ret.old = <<CL_QUEUE_ON_DEVICE_DEFAULT>>
    /\ queues[ret.self].mProperties = CL_QUEUE_ON_DEVICE_DEFAULT

\* C6: an accepted setProperty(M, enable) on a queue with bit-set P leaves
\* every bit of M set (enable) or cleared (disable) and every other bit as in
\* P, and getInfo(Properties) returns the bit-set a queue has, so the one
\* after the call; enabling M on an empty bit-set gives M with old = 0, and
\* disabling M on M gives the empty bit-set with old = M.
C6_MaskSetOrCleared ==
    /\ [](\A q \in QueueIds :
             queues[q].alive
                 => Query(q, "Properties") =
                        [result |-> CL_SUCCESS,
                         value |-> Bytes(queues[q].mProperties, SizeofProperties),
                         valueSizeRet |-> <<SizeofProperties>>])
    /\ [][(ret'.op = "setProperty" /\ ret'.result = CL_SUCCESS)
          => \A m \in MaskInputs, en \in BOOLEAN, nullOld \in BOOLEAN :
                setProperty(ret'.self, m, en, nullOld, CL_SUCCESS)
                    => LET P == queues[ret'.self].mProperties
                           after == queues'[ret'.self].mProperties
                       IN  /\ \A b \in PropertyBits :
                                  HasBit(after, b) =
                                      IF HasBit(m, b) THEN en ELSE HasBit(P, b)
                           /\ (P = 0 /\ en /\ ~nullOld)
                                  => (ret'.old = <<0>> /\ after = m)
                           /\ (P = m /\ ~en /\ ~nullOld)
                                  => (ret'.old = <<m>> /\ after = 0)
      ]_vars

\* An accepted disable of the combined mask on a queue that had exactly
\* those two bits: old holds both, the queue none.
C6_Witness ==
    /\ ret.op = "setProperty"
    /\ ret.result = CL_SUCCESS
    /\ ret.old = <<CL_QUEUE_OUT_OF_ORDER_EXEC_MODE_ENABLE + CL_QUEUE_ON_DEVICE_DEFAULT>>
    /\ queues[ret.self].mProperties = 0

\* The bit-set and size createCommandQueueWithProperties reads from an array.
Parsed(a) == ParseProps(a, [props |-> 0, size |-> kNoSize])

\* The step is a successful creation call; ret'.handle is the new queue.
Created(op) == ret'.op = op /\ ret'.result = CL_SUCCESS

\* C7, as stated: a queue constructed with the on-device-default property,
\* by either constructor, is its device's recorded default right after its
\* creation.
C7_EitherConstructorSetsDefault ==
    [][(/\ Created("createCommandQueue") \/ Created("createCommandQueueWithProperties")
        /\ HasBit(queues'[ret'.handle].mProperties, CL_QUEUE_ON_DEVICE_DEFAULT))
          => mDefaultCommandQueue'[queues'[ret'.handle].mDevice] = ret'.handle
      ]_vars

\* C7, amended: a queue constructed with the on-device-default property by
\* the extended-property-array constructor is its device's recorded default
\* right after construction, and after its successful creation call; the
\* legacy creation call never changes a device's back-pointer, with or
\* without the property.
C7_ExtendedConstructorSetsDefault ==
    [][/\ \A d \in Devices, this \in QueueIds, a \in PropArrayInputs :
            (~queues[this].alive /\ HasBit(Parsed(a).props, CL_QUEUE_ON_DEVICE_DEFAULT))
                => ExtendedCtorBody(mDefaultCommandQueue, this, d, Parsed(a).props)[d]
                       = this
       /\ (/\ Created("createCommandQueueWithProperties")
           /\ HasBit(queues'[ret'.handle].mProperties, CL_QUEUE_ON_DEVICE_DEFAULT))
             => mDefaultCommandQueue'[queues'[ret'.handle].mDevice] = ret'.handle
       /\ ret'.op = "createCommandQueue"
             => mDefaultCommandQueue' = mDefaultCommandQueue
      ]_vars

\* The call just returned a queue built from an array with the property set,
\* and its device records it.
C7_Witness ==
    /\ ret.op = "createCommandQueueWithProperties"
    /\ ret.result = CL_SUCCESS
    /\ HasBit(Parsed(queues[ret.handle].mPropArray).props, CL_QUEUE_ON_DEVICE_DEFAULT)
    /\ mDefaultCommandQueue[queues[ret.handle].mDevice] = ret.handle

\* C8: a successful createCommandQueueWithProperties with the
\* on-device-default property on device D makes the DeviceDefault query of
\* every queue of D return the new queue, whether D had a default or not; a
\* queue that was the default before is not the new one, stays alive with
\* its reference count, and stays in its context's list.
C8_LastWriterWins ==
    [][(/\ Created("createCommandQueueWithProperties")
        /\ HasBit(queues'[ret'.handle].mProperties, CL_QUEUE_ON_DEVICE_DEFAULT))
          => LET this == ret'.handle
                 d == queues'[this].mDevice
                 prev == mDefaultCommandQueue[d]
             IN  /\ \A q \in QueueIds :
                        (queues'[q].alive /\ queues'[q].mDevice = d)
                            => /\ Query(q, "DeviceDefault")'.result = CL_SUCCESS
                               /\ Query(q, "DeviceDefault")'.value =
                                      Bytes(this, SizeofPointer)
                 /\ prev # NULL
                        => /\ prev # this
                           /\ queues[prev].alive
                           /\ queues'[prev] = queues[prev]
                           /\ prev \in Range(mCommandQueues'[queues[prev].mContext])
                           /\ \A q \in {x \in QueueIds : x = prev} : IsValid(q)'
      ]_vars

\* Two live queues of one device, both built with the property; the one the
\* call just returned is the recorded default, the other is still listed.
C8_Witness ==
    /\ ret.op = "createCommandQueueWithProperties"
    /\ ret.result = CL_SUCCESS
    /\ \E q1 \in QueueIds \ {ret.handle} :
        /\ queues[q1].alive
        /\ queues[q1].mDevice = queues[ret.handle].mDevice
        /\ HasBit(Parsed(queues[q1].mPropArray).props, CL_QUEUE_ON_DEVICE_DEFAULT)
        /\ HasBit(Parsed(queues[ret.handle].mPropArray).props,
                  CL_QUEUE_ON_DEVICE_DEFAULT)
        /\ mDefaultCommandQueue[queues[q1].mDevice] = ret.handle
        /\ q1 \in Range(mCommandQueues[queues[q1].mContext])

\* C9: the release that destroys a queue clears its device's recorded
\* default, so that the DeviceDefault query returns null, exactly when the
\* destroyed queue is the recorded default; otherwise every device's
\* recorded default stays as it was.
C9_DestructorClearsOwnDefault ==
    [][(ret'.op = "release" /\ ret'.released)
          => LET this == ret'.self
                 d == queues[this].mDevice
             IN  /\ queues[this].alive
                 /\ ~queues'[this].alive
                 /\ \A x \in Devices \ {d} :
                        mDefaultCommandQueue'[x] = mDefaultCommandQueue[x]
                 /\ IF mDefaultCommandQueue[d] = this
                    THEN /\ mDefaultCommandQueue'[d] = NULL
                         /\ \A q \in QueueIds :
                                (queues'[q].alive /\ queues'[q].mDevice = d)
                                    => Query(q, "DeviceDefault")'.value =
                                           Bytes(NULL, SizeofPointer)
                    ELSE mDefaultCommandQueue'[d] = mDefaultCommandQueue[d]
      ]_vars

\* A queue was just destroyed while another queue of the same device is and
\* remains that device's recorded default.
C9_Witness ==
    /\ ret.op = "release"
    /\ ret.released
    /\ \E q \in QueueIds :
           /\ queues[q].alive
           /\ mDefaultCommandQueue[queues[q].mDevice] = q

\* C10: either creation call with a device outside the context's device set
\* returns CL_INVALID_DEVICE and a null handle and changes neither a
\* command-queue list nor any queue or device.
C10_ForeignDeviceRejected ==
    [][(ret'.op = "createCommandQueue" \/ ret'.op = "createCommandQueueWithProperties")
          => \A d \in Devices \ Range(mDevices[ret'.self]), this \in QueueIds,
                e \in FactoryResults :
                 (\/ \E p \in PropertyInputs :
                         createCommandQueue(ret'.self, d, p, this, e)
                  \/ \E a \in PropArrayInputs :
                         createCommandQueueWithProperties(ret'.self, d, a, this, e))
                     => /\ ret'.result = CL_INVALID_DEVICE
                        /\ ret'.handle = NULL
                        /\ UNCHANGED <<queues, mCommandQueues, mDefaultCommandQueue,
                                       contexts>>
      ]_vars

\* A creation call was just refused for its device while the refusing
\* context (17, which lacks device 34) owns a queue.
C10_Witness ==
    /\ ret.result = CL_INVALID_DEVICE
    /\ ret.handle = NULL
    /\ ret.self = 17
    /\ mCommandQueues[17] # <<>>

\* The step is a creation call that passed the device check and whose backend
\* factory reported an error.
FactoryFailed ==
    /\ ret'.op = "createCommandQueue" \/ ret'.op = "createCommandQueueWithProperties"
    /\ ret'.result \notin {CL_SUCCESS, CL_INVALID_DEVICE}

\* C11: a creation call whose backend factory reports an error returns no
\* handle, leaves every context's command-queue list and every queue as they
\* were, makes no handle valid that was not valid before, and leaves every
\* device's recorded default queue as it was before the call, also when the
\* failed creation carried the on-device-default property and another queue
\* was the recorded default.
C11_FailedCreationNoSideEffect ==
    [][FactoryFailed
          => /\ ret'.handle = NULL
             /\ mCommandQueues' = mCommandQueues
             /\ queues' = queues
             /\ \A c \in Contexts :
                    Range(mCommandQueues'[c]) \subseteq Range(mCommandQueues[c])
             /\ mDefaultCommandQueue' = mDefaultCommandQueue
      ]_vars

\* ------------------------------------------------------------------ threads
\* The calls of concurrent application threads, one step per access to the
\* shared objects.  The library takes no lock (no function under src/ does),
\* so the steps of different threads interleave freely.  A thread record
\* holds the call (op), its arguments (self, ctx, device, properties,
\* errorCode), its position (pc) and its locals and outputs:
\*   released          removeRef's result in release
\*   isDefault         the destructor's comparison of the back-pointer with this
\*   it                the iterator of hasCommandQueue (the element it is at)
\*   out               what the call returned
\*   touchedDestroyed  the call used the queue after it was destroyed
\*   halfDestroyed     getInfo read a queue whose destructor had begun
At(t, op, pc) == threads[t].op = op /\ threads[t].pc = pc

\* Thread t moves on with the record rec.
Goto(t, rec) == threads' = [threads EXCEPT ![t] = rec]

\* The destructor of the queue at address q has begun and q is not yet freed.
Destroying(q) ==
    \E t \in Threads :
        threads[t].self = q /\ threads[t].pc \in {"dtor", "dtorClear", "free"}

\* The command-queue list of context c is being changed.
Mutating(c) ==
    \E t \in Threads : threads[t].ctx = c /\ threads[t].pc \in {"inserting", "erasing"}

\* A scan of the command-queue list of context c is under way.
Scanning(c) == \E t \in Threads : At(t, "hasCommandQueue", "scanNext") /\ threads[t].ctx = c

\* release, line 30, with the test of released dropped.
AfterRemoveRef_AlwaysDestroy(released) == "destroy"

\* release, line 30: where the call goes once removeRef has returned.
AfterRemoveRef(released) == IF released THEN "destroy" ELSE "done"

\* release, line 29: removeRef, an atomic decrement that reports whether the
\* count reached zero.  On a queue that was destroyed the decrement writes
\* freed memory and reports anything.
ReleaseRemoveRef(t) ==
    /\ At(t, "release", "release")
    /\ LET this == threads[t].self
       IN  IF queues[this].alive
           THEN LET obj == removeRef(queues[this])
                    released == obj.mRefCount = 0
                IN  /\ queues' = [queues EXCEPT ![this] = obj]
                    /\ Goto(t, [threads[t] EXCEPT !.released = released,
                                                  !.out = <<released>>,
                                                  !.pc = AfterRemoveRef(released)])
           ELSE /\ \E released \in BOOLEAN :
                       Goto(t, [threads[t] EXCEPT !.released = released,
                                                  !.out = <<released>>,
                                                  !.touchedDestroyed = TRUE,
                                                  !.pc = AfterRemoveRef(released)])
                /\ UNCHANGED queues
    /\ UNCHANGED <<mCommandQueues, mDefaultCommandQueue, contexts, ret, call>>

\* release, line 32: mContext->destroyCommandQueue(this) reads this->mContext
\* and starts to erase the entry from that context's list.  A call on a
\* queue that was destroyed reads freed memory and goes no further here.
ReleaseDestroy(t) ==
    /\ At(t, "release", "destroy")
    /\ LET this == threads[t].self
       IN  IF queues[this].alive /\ ~Destroying(this)
           THEN Goto(t, [threads[t] EXCEPT !.ctx = queues[this].mContext,
                                           !.pc = "erasing"])
           ELSE Goto(t, [threads[t] EXCEPT !.ctx = queues[this].mContext,
                                           !.touchedDestroyed = TRUE,
                                           !.pc = "done"])
    /\ UNCHANGED <<queues, mCommandQueues, mDefaultCommandQueue, contexts, ret, call>>

\* Context::destroyCommandQueue: the entry leaves the list; dropping the
\* owning pointer runs the destructor.
EraseEntry(t) ==
    /\ At(t, "release", "erasing")
    /\ mCommandQueues' =
           [mCommandQueues EXCEPT ![threads[t].ctx] = Erase(@, threads[t].self)]
    /\ Goto(t, [threads[t] EXCEPT !.pc = "dtor"])
    /\ UNCHANGED <<queues, mDefaultCommandQueue, contexts, ret, call>>

\* ~CommandQueue, line 21: the comparison of the back-pointer with this.
DtorCompare(t) ==
    /\ threads[t].pc = "dtor"
    /\ LET this == threads[t].self
           isDefault == mDefaultCommandQueue[queues[this].mDevice] = this
       IN  Goto(t, [threads[t] EXCEPT !.isDefault = isDefault,
                                       !.device = queues[this].mDevice,
                                       !.pc = IF isDefault THEN "dtorClear" ELSE "free"])
    /\ UNCHANGED <<queues, mCommandQueues, mDefaultCommandQueue, contexts, ret, call>>

\* ~CommandQueue, line 23: the back-pointer is cleared.
DtorClear(t) ==
    /\ threads[t].pc = "dtorClear"
    /\ mDefaultCommandQueue' = [mDefaultCommandQueue EXCEPT ![threads[t].device] = NULL]
    /\ Goto(t, [threads[t] EXCEPT !.pc = "free"])
    /\ UNCHANGED <<queues, mCommandQueues, contexts, ret, call>>

\* The end of the destructor: the members are destroyed, among them the
\* reference to the context, and the memory is freed.
DtorFree(t) ==
    /\ threads[t].pc = "free"
    /\ LET this == threads[t].self
       IN  /\ contexts' = ContextRelease(contexts, queues[this].mContext)
           /\ queues' = [queues EXCEPT ![this] = NoQueue]
    /\ Goto(t, [threads[t] EXCEPT !.pc = "done"])
    /\ UNCHANGED <<mCommandQueues, mDefaultCommandQueue, ret, call>>

\* createCommandQueueWithProperties up to the constructor's body: the
\* object is allocated at self and its members are initialised (lines
\* 151-157), the backend factory reporting errorCode.
CreateConstruct(t) ==
    /\ At(t, "create", "create")
    /\ ~queues[threads[t].self].alive
    /\ LET parsed == ParseProps(threads[t].properties, [props |-> 0, size |-> kNoSize])
       IN  queues' = [queues EXCEPT ![threads[t].self] =
                         ExtendedObject(threads[t].ctx, threads[t].device,
                                        threads[t].properties, parsed.props, parsed.size)]
    /\ contexts' = ContextRetain(contexts, threads[t].ctx)
    /\ Goto(t, [threads[t] EXCEPT !.pc = "ctorBody"])
    /\ UNCHANGED <<mCommandQueues, mDefaultCommandQueue, ret, call>>

\* The body of the extended constructor, lines 159-162.  A queue whose
\* backend factory failed is destroyed, the others go on to the list.
CreateCtorBody(t) ==
    /\ At(t, "create", "ctorBody")
    /\ mDefaultCommandQueue' =
           ExtendedCtorBody(mDefaultCommandQueue, threads[t].self, threads[t].device,
                            queues[threads[t].self].mProperties)
    /\ Goto(t, [threads[t] EXCEPT
                    !.pc = IF threads[t].errorCode = CL_SUCCESS THEN "insert" ELSE "dtor"])
    /\ UNCHANGED <<queues, mCommandQueues, contexts, ret, call>>

\* Context::createCommandQueue(CommandQueue *): the insertion begins.
CreateInsert(t) ==
    /\ At(t, "create", "insert")
    /\ Goto(t, [threads[t] EXCEPT !.pc = "inserting"])
    /\ UNCHANGED <<queues, mCommandQueues, mDefaultCommandQueue, contexts, ret, call>>

\* The insertion ends: the queue is in the list and its handle is returned.
CreateInserted(t) ==
    /\ At(t, "create", "inserting")
    /\ mCommandQueues' =
           [mCommandQueues EXCEPT ![threads[t].ctx] = Append(@, threads[t].self)]
    /\ Goto(t, [threads[t] EXCEPT !.out = <<threads[t].self>>, !.pc = "done"])
    /\ UNCHANGED <<queues, mDefaultCommandQueue, contexts, ret, call>>

\* getInfo(DeviceDefault), lines 74-78 and 83-99: the back-pointer of the
\* queue's device is read and copied to the caller.
GetDeviceDefault(t) ==
    /\ At(t, "getInfo", "getInfo")
    /\ LET read == mDefaultCommandQueue[queues[threads[t].self].mDevice]
       IN  Goto(t, [threads[t] EXCEPT
                       !.out = Query(threads[t].self, "DeviceDefault").value,
                       !.halfDestroyed =
                           read # NULL /\ (Destroying(read) \/ ~queues[read].alive),
                       !.pc = "done"])
    /\ UNCHANGED <<queues, mCommandQueues, mDefaultCommandQueue, contexts, ret, call>>

\* The element after x in a list, NULL (the end) after the last one.
RECURSIVE Successor(_, _)
Successor(list, x) ==
    IF list = <<>> THEN NULL
    ELSE IF Head(list) = x
         THEN (IF Tail(list) = <<>> THEN NULL ELSE Head(Tail(list)))
         ELSE Successor(Tail(list), x)

\* Context::hasCommandQueue, lines 209-211: find_if takes cbegin().
ScanBegin(t) ==
    /\ At(t, "hasCommandQueue", "hasCommandQueue")
    /\ LET list == mCommandQueues[threads[t].ctx]
       IN  Goto(t, [threads[t] EXCEPT
                       !.it = IF list = <<>> THEN NULL ELSE Head(list),
                       !.pc = "scanNext"])
    /\ UNCHANGED <<queues, mCommandQueues, mDefaultCommandQueue, contexts, ret, call>>

\* One round of find_if: at the end the handle was not found; an element
\* equal to the handle ends the scan; otherwise the iterator advances.  On a
\* list that is being changed, or from an element that was erased, the
\* iterator is invalid and the scan returns anything.
ScanNext(t) ==
    /\ At(t, "hasCommandQueue", "scanNext")
    /\ LET list == mCommandQueues[threads[t].ctx]
           it == threads[t].it
       IN  IF Mutating(threads[t].ctx) \/ (it # NULL /\ it \notin Range(list))
           THEN \E found \in BOOLEAN :
                    Goto(t, [threads[t] EXCEPT !.out = <<found>>, !.pc = "done"])
           ELSE IF it = NULL
           THEN Goto(t, [threads[t] EXCEPT !.out = <<FALSE>>, !.pc = "done"])
           ELSE IF it = threads[t].self
           THEN Goto(t, [threads[t] EXCEPT !.out = <<TRUE>>, !.pc = "done"])
           ELSE Goto(t, [threads[t] EXCEPT !.it = Successor(list, it)])
    /\ UNCHANGED <<queues, mCommandQueues, mDefaultCommandQueue, contexts, ret, call>>

\* A thread about to make a call.
Call(op, self, c, device, properties, errorCode) ==
    [NoThread EXCEPT !.op = op, !.pc = op, !.self = self, !.ctx = c, !.device = device,
                     !.properties = properties, !.errorCode = errorCode]

ReleaseCall(q) == Call("release", q, NULL, NULL, <<>>, "none")

\* The object graph the threads start from: the queue at address 1, built
\* from the array a in context c on device d and holding count references;
\* with second, a queue at address 2 in context 18 on the same device, built
\* from the array b after the first.  Every such graph is one the creation
\* and retain calls reach.
World(c, d, a, count, second, b) ==
    LET first == [ExtendedObject(c, d, a, Parsed(a).props, Parsed(a).size)
                     EXCEPT !.mRefCount = count]
        other == ExtendedObject(18, d, b, Parsed(b).props, Parsed(b).size)
        afterFirst == ExtendedCtorBody([x \in Devices |-> NULL], 1, d, Parsed(a).props)
    IN  /\ queues = [q \in QueueIds |->
                        IF q = 1 THEN first
                        ELSE IF q = 2 /\ second THEN other
                        ELSE NoQueue]
        /\ mCommandQueues = [x \in Contexts |->
                        (IF x = c THEN <<1>> ELSE <<>>)
                        \o (IF x = 18 /\ second THEN <<2>> ELSE <<>>)]
        /\ mDefaultCommandQueue =
               IF second THEN ExtendedCtorBody(afterFirst, 2, d, Parsed(b).props)
               ELSE afterFirst
        /\ contexts = [x \in Contexts |->
                        [NewContext EXCEPT !.mRefCount = @ + Len(mCommandQueues[x])]]
        /\ ret = NoRet
        /\ call = NoCall

\* k threads, each holding one reference to the queue at address 1, call
\* release; the application may hold one more reference (extra).
InitRelease ==
    \E c \in Contexts, a \in PropArrayInputs, b \in PropArrayInputs,
       k \in 1 .. MaxThreads, extra \in 0 .. 1, second \in BOOLEAN :
      \E d \in Range(mDevices[c]) :
        /\ World(c, d, a, k + extra, second, b)
        /\ threads = [t \in Threads |-> IF t <= k THEN ReleaseCall(1) ELSE NoThread]

ReleaseStep ==
    \E t \in Threads :
        \/ ReleaseRemoveRef(t)
        \/ ReleaseDestroy(t)
        \/ EraseEntry(t)

DestructorStep ==
    \E t \in Threads :
        \/ DtorCompare(t)
        \/ DtorClear(t)
        \/ DtorFree(t)

NextRelease ==
    \/ ReleaseStep
    \/ DestructorStep

SpecRelease == InitRelease /\ [][NextRelease]_vars

\* The calls a thread of SpecThreads makes: the release of a reference to
\* the queue at address 1, the creation of a queue in context 18 on device
\* 33, the DeviceDefault query on a queue, the scan of the list of context
\* 18 for a handle.
Programs ==
    {ReleaseCall(1)}
    \cup {Call("create", q, 18, 33, a, e) :
              q \in QueueIds \ {1}, a \in PropArrayInputs, e \in FactoryResults}
    \cup {Call("getInfo", q, NULL, NULL, <<>>, "none") : q \in QueueIds}
    \cup {Call("hasCommandQueue", q, 18, NULL, <<>>, "none") : q \in QueueIds}

\* Every thread makes one call.  A thread that releases the queue at
\* address 1 holds one of its references; a thread that queries a queue
\* holds a reference it does not release (extra for the first queue, the
\* only reference of the second); the addresses of the queues created are
\* free and differ.
InitThreads ==
    \E a \in PropArrayInputs, extra \in 0 .. 1, second \in BOOLEAN,
       prog \in [Threads -> Programs] :
        LET releasers == {t \in Threads : prog[t].op = "release"}
            creators == {t \in Threads : prog[t].op = "create"}
        IN  /\ Cardinality(releasers) + extra >= 1
            /\ \A t \in creators :
                   /\ ~(second /\ prog[t].self = 2)
                   /\ \A u \in creators : prog[u].self = prog[t].self => u = t
            /\ \A t \in Threads :
                   prog[t].op = "getInfo"
                       => \/ prog[t].self = 1 /\ extra = 1
                          \/ prog[t].self = 2 /\ second
            /\ World(18, 33, a, Cardinality(releasers) + extra, second, <<>>)
            /\ threads = prog

CreateStep ==
    \E t \in Threads :
        \/ CreateConstruct(t)
        \/ CreateCtorBody(t)
        \/ CreateInsert(t)
        \/ CreateInserted(t)

GetInfoStep == \E t \in Threads : GetDeviceDefault(t)

ScanStep ==
    \E t \in Threads :
        \/ ScanBegin(t)
        \/ ScanNext(t)

NextThreads ==
    \/ ReleaseStep
    \/ DestructorStep
    \/ CreateStep
    \/ GetInfoStep
    \/ ScanStep

SpecThreads == InitThreads /\ [][NextThreads]_vars

\* --------------------------------------------------- reference-count claims
\* The contexts whose command-queue list holds the handle h.
Owners(h) == {c \in Contexts : hasCommandQueue(c, h)}

\* Number of entries of a list that are h.
Count(list, h) == Cardinality({i \in 1 .. Len(list) : list[i] = h})

\* C12: release returns true, and the queue leaves its context's list and is
\* destroyed, exactly on the call that takes the reference count from 1 to 0;
\* no other step removes a queue from a list or destroys it; a queue is an
\* entry (once) of the list of its context exactly while it exists, and it
\* exists exactly while its count is above zero.
C12_DestroyedAtZeroOnly ==
    /\ [](\A q \in QueueIds :
             /\ queues[q].alive = (queues[q].mRefCount > 0)
             /\ queues[q].alive
                    => /\ Owners(q) = {queues[q].mContext}
                       /\ Count(mCommandQueues[queues[q].mContext], q) = 1
             /\ ~queues[q].alive => Owners(q) = {})
    /\ [][/\ ret'.op = "release"
             => LET this == ret'.self
                    c == queues[this].mContext
                IN  /\ ret'.released = (queues[this].mRefCount = 1)
                    /\ IF ret'.released
                       THEN /\ ~queues'[this].alive
                            /\ mCommandQueues'[c] = Erase(mCommandQueues[c], this)
                            /\ Count(mCommandQueues'[c], this) = 0
                       ELSE /\ mCommandQueues' = mCommandQueues
                            /\ queues'[this].alive
                            /\ queues'[this].mRefCount = queues[this].mRefCount - 1
          /\ \A q \in QueueIds :
               (queues[q].alive /\ ~queues'[q].alive)
                   => (ret'.op = "release" /\ ret'.self = q /\ ret'.released)
          /\ \A q \in QueueIds, c \in Contexts :
               Count(mCommandQueues'[c], q) < Count(mCommandQueues[c], q)
                   => (ret'.op = "release" /\ ret'.self = q /\ ret'.released)
         ]_vars

\* A release just destroyed its queue while another queue, with two
\* references, stays in a list.
C12_Witness ==
    /\ ret.op = "release"
    /\ ret.released
    /\ ~queues[ret.self].alive
    /\ \E q \in QueueIds :
           /\ queues[q].mRefCount = 2
           /\ hasCommandQueue(queues[q].mContext, q)

\* C13: IsValid(h) holds exactly for the handles of the queues that exist,
\* which are the entries of the contexts' lists: it holds for the handle a
\* successful creation returned, and after every retain and every release
\* that left references, and fails for an address no queue was created at,
\* for the null handle a refused or failed creation returned, and for the
\* handle whose last reference was just released.
C13_ValidIffListed ==
    /\ ~IsValid(NULL)
    /\ \A h \in QueueIds : IsValid(h) = queues[h].alive
    /\ (ret.op \in {"createCommandQueue", "createCommandQueueWithProperties"})
          => IF ret.result = CL_SUCCESS
             THEN IsValid(ret.handle)
             ELSE ret.handle = NULL
    /\ ret.op = "retain" => IsValid(ret.self)
    /\ ret.op = "release" => (IsValid(ret.self) = ~ret.released)

\* A creation just returned the second queue of a context's list, and the
\* scan finds it.
C13_Witness ==
    /\ \E c \in Contexts :
           /\ Len(mCommandQueues[c]) = 2
           /\ IsValid(mCommandQueues[c][2])
    /\ ret.op \in {"createCommandQueue", "createCommandQueueWithProperties"}
    /\ ret.result = CL_SUCCESS

\* C14: a retain adds one to the count of a live queue, and the release that
\* follows it on the same queue reports "not released", removes nothing from
\* any list, takes the count back to the value before the retain (at least
\* one) and leaves the queue valid.
C14_RetainReleaseRoundTrip ==
    /\ [](ret.op = "retain"
             => (queues[ret.self].alive /\ queues[ret.self].mRefCount >= 2))
    /\ [][/\ ret'.op = "retain"
             => /\ queues[ret'.self].mRefCount >= 1
                /\ queues'[ret'.self].mRefCount = queues[ret'.self].mRefCount + 1
          /\ (ret.op = "retain" /\ ret'.op = "release" /\ ret'.self = ret.self)
             => /\ ~ret'.released
                /\ mCommandQueues' = mCommandQueues
                /\ queues'[ret.self].alive
                /\ queues'[ret.self].mRefCount = queues[ret.self].mRefCount - 1
                /\ queues'[ret.self].mRefCount >= 1
                /\ Count(mCommandQueues'[queues[ret.self].mContext], ret.self) = 1
         ]_vars

\* The release of a round trip has returned: not released, the count is back
\* at one and the queue is still listed.
C14_Witness ==
    /\ ret.op = "release"
    /\ ~ret.released
    /\ queues[ret.self].mRefCount = 1
    /\ IsValid(ret.self)

\* The queues that exist and belong to context c.
Children(c) == {q \in QueueIds : queues[q].alive /\ queues[q].mContext = c}

\* C15: every existing queue holds one counted reference to its context:
\* the context's count is the number of references the application holds
\* plus the number of its queues, so it is at least that number; a context
\* with a queue is not destroyed, also when the application has released
\* all of its own references, and the step in which a context's count
\* reaches zero leaves it no queue.
C15_ContextOutlivesChildren ==
    /\ [](\A c \in Contexts :
             /\ contexts[c].mRefCount = contexts[c].held + Cardinality(Children(c))
             /\ contexts[c].mRefCount >= Cardinality(Children(c))
             /\ Children(c) # {} => ContextIsValid(c)
             /\ Children(c) = Range(mCommandQueues[c]))
    /\ [][\A c \in Contexts :
              /\ (ContextIsValid(c) /\ contexts'[c].mRefCount = 0)
                    => \A q \in QueueIds : ~(queues'[q].alive /\ queues'[q].mContext = c)
              /\ (ret'.op = "releaseContext" /\ ret'.self = c /\ Children(c) # {})
                    => (~ret'.released /\ contexts'[c].mRefCount > 0)
         ]_vars

\* The application released its last reference to a context that has a
\* queue: the context lives on with the queue's reference only.
C15_Witness ==
    /\ ret.op = "releaseContext"
    /\ ~ret.released
    /\ contexts[ret.self].held = 0
    /\ contexts[ret.self].mRefCount = 1
    /\ Children(ret.self) # {}

\* A getInfo query for the property array into a buffer that holds the
\* longest array of PropArrayInputs.
ArrayCapacity == 5 * SizeofPropElem
QueryArray(self) ==
    getInfo(self, "PropertiesArray", ArrayCapacity, Buffer(FALSE, ArrayCapacity),
            SizeOut(FALSE))

\* C16: getInfo(PropertiesArray) succeeds and returns the bytes and the byte
\* size of the array the queue stores; the stored array and queue size are
\* those the creation call received, and no later step (setProperty accepted
\* or rejected, retain, release that leaves references) changes them,
\* whatever happens to the bit-set getInfo(Properties) returns.
C16_PropArrayImmutable ==
    /\ [](\A q \in QueueIds :
             queues[q].alive
                 => LET arr == queues[q].mPropArray
                    IN  QueryArray(q) =
                            [result |-> CL_SUCCESS,
                             value |-> memcpy(Fill(ArrayCapacity), ArrayBytes(arr),
                                              Len(arr) * SizeofPropElem),
                             valueSizeRet |-> <<Len(arr) * SizeofPropElem>>])
    /\ [][/\ Created("createCommandQueueWithProperties")
               => \A a \in PropArrayInputs, d \in Devices :
                      createCommandQueueWithProperties(ret'.self, d, a, ret'.handle,
                                                       CL_SUCCESS)
                          => /\ queues'[ret'.handle].mPropArray = a
                             /\ queues'[ret'.handle].mSize = Parsed(a).size
          /\ \A q \in QueueIds :
                 (queues[q].alive /\ queues'[q].alive)
                     => /\ queues'[q].mPropArray = queues[q].mPropArray
                        /\ queues'[q].mSize = queues[q].mSize
         ]_vars

\* An accepted setProperty just cleared the on-device-default bit of a queue
\* whose stored array still names it; the queue was retained before.
C16_Witness ==
    /\ ret.op = "setProperty"
    /\ ret.result = CL_SUCCESS
    /\ queues[ret.self].mProperties = 0
    /\ queues[ret.self].mRefCount = 2
    /\ Parsed(queues[ret.self].mPropArray).props = CL_QUEUE_ON_DEVICE_DEFAULT
    /\ QueryArray(ret.self).value =
           ArrayBytes(<<CL_QUEUE_SIZE, 2, CL_QUEUE_PROPERTIES,
                        CL_QUEUE_ON_DEVICE_DEFAULT, 0>>)

\* ------------------------------------------------------ concurrency claims
\* The threads that release the queue at address q, those whose removeRef
\* reported zero (their release returns true), and those that called
\* Context::destroyCommandQueue.
Releasers(q) == {t \in Threads : threads[t].op = "release" /\ threads[t].self = q}
ReturnTrue(q) == {t \in Releasers(q) : threads[t].released}
Destroyers(q) == {t \in Releasers(q) : threads[t].ctx # NULL}
ThreadsDone == \A t \in Threads : threads[t].pc = "done"

\* C17: when threads that each hold one reference to a queue release it
\* concurrently, at most one release returns true and only that one calls
\* destroyCommandQueue, no release uses the queue after it was destroyed,
\* and once all have returned: if the threads held every reference, exactly
\* one release returned true, destroyCommandQueue ran once and the queue is
\* gone; if a reference is left, none returned true and the queue is listed.
C17_OneReleaseDestroys ==
    \A q \in QueueIds :
        /\ Cardinality(ReturnTrue(q)) <= 1
        /\ Destroyers(q) \subseteq ReturnTrue(q)
        /\ \A t \in Releasers(q) : ~threads[t].touchedDestroyed
        /\ (Releasers(q) # {} /\ ThreadsDone)
              => IF queues[q].alive
                 THEN /\ ReturnTrue(q) = {}
                      /\ queues[q].mRefCount >= 1
                      /\ IsValid(q)
                 ELSE /\ Cardinality(ReturnTrue(q)) = 1
                      /\ Destroyers(q) = ReturnTrue(q)
                      /\ ~IsValid(q)

\* Every thread released a reference to the same queue, all have returned,
\* and the queue, which was its device's default, is destroyed.
C17_Witness ==
    /\ ThreadsDone
    /\ Cardinality(Releasers(1)) = MaxThreads
    /\ Cardinality(ReturnTrue(1)) = 1
    /\ \E t \in ReturnTrue(1) : threads[t].isDefault
    /\ ~queues[1].alive

\* C18: under every interleaving of constructions, destructions and
\* DeviceDefault queries on one device, no query reads from the back-pointer
\* a queue whose destructor has begun or that is destroyed, and once every
\* call has returned the back-pointer is null or names an existing queue.
C18_NoHalfDestroyedDefault ==
    /\ \A t \in Threads : ~threads[t].halfDestroyed
    /\ ThreadsDone
          => \A d \in Devices :
                 \/ mDefaultCommandQueue[d] = NULL
                 \/ queues[mDefaultCommandQueue[d]].alive

\* C19: no scan of a context's command-queue list is under way while an
\* insertion into or an erasure from that list is.
C19_ScanExcludesMutation ==
    \A c \in Contexts : ~(Scanning(c) /\ Mutating(c))

\* C20: when a thread has destroyed a queue of a device and the only
\* creating thread has constructed a queue with the on-device-default
\* property on that device, both calls having returned, the device's
\* recorded default is the constructed queue.
C20_NoLostDefault ==
    \A t1 \in Threads, t2 \in Threads :
        (/\ threads[t1].op = "release"
         /\ threads[t1].pc = "done"
         /\ threads[t1].released
         /\ threads[t2].op = "create"
         /\ threads[t2].pc = "done"
         /\ threads[t2].out = <<threads[t2].self>>
         /\ isSet(Parsed(threads[t2].properties).props, CL_QUEUE_ON_DEVICE_DEFAULT)
         /\ threads[t2].device = threads[t1].device
         /\ \A u \in Threads \ {t2} : threads[u].op # "create")
            => mDefaultCommandQueue[threads[t2].device] = threads[t2].self
====
